---- MODULE Spec2Model ----
(***************************************************************************)
(* chsn-running-platform: the runs API (app/api/runs.py), the Strava       *)
(* integration with its bulk sync (app/api/strava.py) and the SQLite run   *)
(* store (app/services/runs.py).                                           *)
(*                                                                         *)
(* Numbers: a distance is kept in thousandths of its unit (3107 = 3.107),  *)
(* a duration in seconds, a start time as day, hour and UTC offset.        *)
(***************************************************************************)
EXTENDS Integers, Sequences, FiniteSets, TLC

\* ------------------------------------------------------------------ bounds
MaxIds == 2          \* run identifiers the in-memory API store hands out
MaxPages == 2        \* non-empty pages the upstream serves to one sync
MaxPageLen == 2      \* activities on one page of the feed
MaxImport == 2       \* largest max_import a sync is called with
MaxStates == 1       \* OAuth state tokens /connect hands out
MaxTokenGen == 1     \* distinct access tokens the upstream issues per athlete
MaxRowId == 2        \* rows table runs is ever given
MaxHalfUnits == 20   \* longest round-trip distance, in half units
MaxSeconds == 120    \* longest round-trip time, in seconds
MaxHours == 101      \* most hours a formatted duration has
MaxNow == 21540      \* the last instant the clock is read at
MaxCalls == 2        \* _ensure_token calls in flight at once

\* Python's None: "None" where a string is expected, 0 for an identifier,
\* NoToken for a token, Absent for a record.
None == "None"
NoToken == <<>>
Absent == [absent |-> TRUE]
NoInt == 0 - 1       \* an optional integer that is None
NoPace == <<>>       \* an optional "MM:SS" that is None

\* ------------------------------------------------------------ pure helpers
\* Python's round() of the exact quotient num/den (den > 0, num >= 0):
\* round half to even.
RoundHalfEven(num, den) ==
    LET q == num \div den
        r == num % den
    IN  IF 2 * r > den THEN q + 1
        ELSE IF 2 * r < den THEN q
        ELSE IF q % 2 = 0 THEN q ELSE q + 1

SeqToSet(s) == {s[i] : i \in 1..Len(s)}

\* Sequences over S of length lo..hi.
SeqsOf(S, lo, hi) == UNION {[1..n -> S] : n \in lo..hi}

\* ---------------------------------------------------------------- state
VARIABLES
    DB,            \* app/api/runs.py DB: the stored runs, in insertion order
    nextId,        \* the next fresh identifier uuid4() yields
    last,          \* the last response an endpoint gave: [op, id, status]
    provenance,    \* history: <<run id, activity id>> of every run an import created
    deleted,       \* history: identifiers DELETE answered 204 for
    TOKEN_STORE,   \* app/api/strava.py _TOKEN_STORE: athlete -> token record
    OAUTH_STATES,  \* app/api/strava.py _OAUTH_STATES
    issued,        \* history: the state tokens /connect has handed out
    now,           \* time.time(), in seconds
    sync,          \* the /sync calls, by call slot
    rows,          \* app/services/runs.py: the rows of table runs
    rowSeq,        \* the table's AUTOINCREMENT counter
    last_insert_rowid, \* the connection's last_insert_rowid()
    svc,           \* the calls running on the RunsService instance, by thread
    refreshes      \* the _ensure_token calls in flight, by call slot

apiVars == <<DB, nextId, provenance, deleted>>
authVars == <<TOKEN_STORE, OAUTH_STATES, issued, now, refreshes>>
syncVars == <<sync>>
storeVars == <<rows, rowSeq, last_insert_rowid, svc>>
vars == <<DB, nextId, last, provenance, deleted, TOKEN_STORE, OAUTH_STATES,
          issued, now, sync, rows, rowSeq, last_insert_rowid, svc, refreshes>>

\* --------------------------------------------------- app/api/runs.py models
Units == {"mi", "km"}
RunTypes == {"Easy Run", "Workout", "Long Run", "Race"}

\* The start times the model's clients and activities use: the local date
\* (as a day number), the local hour and the UTC offset in hours.
StartTimes ==
    { [day |-> 1, hour |-> 7, off |-> -4],
      [day |-> 1, hour |-> 8, off |-> 0],
      [day |-> 2, hour |-> 7, off |-> 0] }

\* RunIn: the request bodies POST /runs and PUT /runs/{id} are sent.
RunInBodies ==
    { run \in [ title : {"Tempo"}, description : {""},
                started_at : {[day |-> 1, hour |-> 7, off |-> 0]},
                distance : {0, 3100, 5000}, unit : {"mi"},
                duration_s : {0, 1500}, run_type : {"Easy Run"} ] :
        run.distance = 3100 \/ run.duration_s = 1500 }

\* A run entered by hand that has the fingerprint of activities 1 and 2.
LegacyBodies == {run \in RunInBodies : run.distance = 3100 /\ run.duration_s = 1500}

\* a validation of the distance only
RunInValidDistance(run) == run.distance > 0

\* RunIn's field validation (distance gt=0, duration_s gt=0).
RunInValid(run) == run.distance > 0 /\ run.duration_s > 0

\* Run(id=run_id, **run.model_dump())
MkRun(run_id, run) ==
    [ id |-> run_id, title |-> run.title, description |-> run.description,
      started_at |-> run.started_at, distance |-> run.distance,
      unit |-> run.unit, duration_s |-> run.duration_s,
      run_type |-> run.run_type ]

DBIds == {DB[i].id : i \in 1..Len(DB)}
DBIndex(run_id) == CHOOSE i \in 1..Len(DB) : DB[i].id = run_id

\* DB[run_id] = obj for a fresh run_id: the dict grows at its end.
DBInsert(db, obj) == Append(db, obj)

\* create_run: uuid4().hex is a fresh identifier.
create_run(run) ==
    /\ nextId <= MaxIds
    /\ IF RunInValid(run)
       THEN /\ DB' = DBInsert(DB, MkRun(nextId, run))
            /\ nextId' = nextId + 1
            /\ last' = [op |-> "create_run", id |-> nextId, status |-> 201]
       ELSE /\ last' = [op |-> "create_run", id |-> 0, status |-> 422]
            /\ UNCHANGED <<DB, nextId>>
    /\ UNCHANGED <<provenance, deleted>>

\* list_runs: list(DB.values()), the dict's insertion order.
list_runs == DB

get_run(run_id) ==
    /\ last' = [op |-> "get_run", id |-> run_id,
                status |-> IF run_id \in DBIds THEN 200 ELSE 404]
    /\ UNCHANGED <<DB, nextId, provenance, deleted>>

update_run(run_id, run) ==
    /\ IF ~RunInValid(run)
       THEN /\ last' = [op |-> "update_run", id |-> run_id, status |-> 422]
            /\ UNCHANGED DB
       ELSE IF run_id \notin DBIds
       THEN /\ last' = [op |-> "update_run", id |-> run_id, status |-> 404]
            /\ UNCHANGED DB
       ELSE /\ DB' = [DB EXCEPT ![DBIndex(run_id)] = MkRun(run_id, run)]
            /\ last' = [op |-> "update_run", id |-> run_id, status |-> 200]
    /\ UNCHANGED <<nextId, provenance, deleted>>

\* DB.pop(run_id, None): the dict without run_id
DBPop(db, run_id) == SelectSeq(db, LAMBDA r : r.id # run_id)

\* A delete that takes every identifier for a stored one.
DeleteFoundAlways(run_id) == TRUE

\* DB.pop(run_id, None) is None -> 404
DeleteFound(run_id) == run_id \in DBIds

delete_run(run_id) ==
    /\ IF DeleteFound(run_id)
       THEN /\ DB' = DBPop(DB, run_id)
            /\ deleted' = deleted \cup {run_id}
            /\ last' = [op |-> "delete_run", id |-> run_id, status |-> 204]
       ELSE /\ last' = [op |-> "delete_run", id |-> run_id, status |-> 404]
            /\ UNCHANGED <<DB, deleted>>
    /\ UNCHANGED <<nextId, provenance>>

\* ------------------------------------------------- the upstream (Strava)
Athletes == {1, 2}

\* The activities the upstream holds: what the listing and the detail
\* endpoint return for each id (distance in metres, moving_time in seconds,
\* start_date_local as a start time).
\*   1 and 2 are two runs with the same fingerprint, 3 is a short run of
\*   another day whose distance lies just under a bucket boundary, 4 is not
\*   a run.
ActivityIds == {1, 2, 3, 4}
Activity(id) ==
    CASE id = 1 -> [id |-> 1, type |-> "Run", name |-> "Morning Run",
                    start |-> [day |-> 1, hour |-> 7, off |-> 0],
                    distance |-> 5000, moving_time |-> 1500]
      [] id = 2 -> [id |-> 2, type |-> "Run", name |-> "",
                    start |-> [day |-> 1, hour |-> 7, off |-> 0],
                    distance |-> 5005, moving_time |-> 1502]
      [] id = 3 -> [id |-> 3, type |-> "run", name |-> "Strides",
                    start |-> [day |-> 2, hour |-> 7, off |-> 0],
                    distance |-> 48, moving_time |-> 30]
      [] id = 4 -> [id |-> 4, type |-> "Ride", name |-> "Commute",
                    start |-> [day |-> 1, hour |-> 8, off |-> 0],
                    distance |-> 20000, moving_time |-> 3600]
      [] id = 5 -> [id |-> 5, type |-> "Run", name |-> "Treadmill",
                    start |-> [day |-> 2, hour |-> 7, off |-> 0],
                    distance |-> 0, moving_time |-> 1500]
      [] id = 6 -> [id |-> 6, type |-> "Run", name |-> "Paused",
                    start |-> [day |-> 2, hour |-> 8, off |-> 0],
                    distance |-> 5000, moving_time |-> 0]

\* The pages the listing may answer with: no activity (the end of the feed)
\* or 1..MaxPageLen activities, newest first as the upstream lists them
\* (here: by id), the same activity possibly more than once.
Pages ==
    {p \in SeqsOf(ActivityIds, 0, MaxPageLen) :
        \A i \in 1..(Len(p) - 1) : p[i] <= p[i + 1]}

\* Activities the upstream recorded no distance or no moving time for, and
\* the pages that list them next to activity 1: the empty page and the full
\* pages, each activity once.
DegenerateIds == {5, 6}
DegeneratePages ==
    {p \in SeqsOf({1} \cup DegenerateIds, 0, MaxPageLen) :
        /\ Len(p) \in {0, MaxPageLen}
        /\ \A i \in 1..(Len(p) - 1) : p[i] < p[i + 1]}

\* (it.get("type") or "").lower()
Lower(str) ==
    CASE str = "Run" -> "run"
      [] str = "Ride" -> "ride"
      [] OTHER -> str

\* Access tokens the upstream issues for an athlete: each answer carries
\* tokens of its own, named here by athlete, generation and time of issue.
TokenResponses(a) ==
    { [ access_token |-> <<"at", a, v, now>>,
        refresh_token |-> <<"rt", a, v, now>>,
        expires_at |-> e, athlete |-> a ] :
      v \in 1..MaxTokenGen, e \in {now + 30, now + 21600} }

\* The instants the clock is read at after the start: with MaxNow a
\* six-hour token issued at 0 is 61 and then 60 seconds from its expiry.
ClockInstants == {MaxNow - 1, MaxNow}

\* ------------------------------------------- app/api/strava.py: tokens
TokenBuffer == 60

\* _resolve_athlete_id
ResolveAthlete(maybe_id) ==
    IF maybe_id # 0 THEN [status |-> 200, athlete |-> maybe_id]
    ELSE IF Cardinality(DOMAIN TOKEN_STORE) = 1
    THEN [status |-> 200, athlete |-> CHOOSE a \in DOMAIN TOKEN_STORE : TRUE]
    ELSE [status |-> 400, athlete |-> 0]

\* a rec.update that takes the access token only
RefreshedAccessOnly(rec, token) ==
    [rec EXCEPT !.access_token = token.access_token]

\* rec.update({...}) with the refresh response
RefreshedRecord(rec, token) ==
    [rec EXCEPT !.access_token = token.access_token,
                !.refresh_token = token.refresh_token,
                !.expires_at = token.expires_at]

\* valid until the very second of expiry, without the buffer
StillValidUnbuffered(rec) == rec.expires_at - now > 0

\* rec["expires_at"] - now > 60: still valid with the buffer
StillValid(rec) == rec.expires_at - now > TokenBuffer

\* An _ensure_token that drops the record when the refresh is refused.
EnsureTokenForgetful(athlete) ==
    IF athlete \notin DOMAIN TOKEN_STORE
    THEN {[status |-> 401, token |-> NoToken, store |-> TOKEN_STORE,
           refresh |-> FALSE]}
    ELSE IF StillValid(TOKEN_STORE[athlete])
    THEN {[status |-> 200, token |-> TOKEN_STORE[athlete].access_token,
           store |-> TOKEN_STORE, refresh |-> FALSE]}
    ELSE {[status |-> 502, token |-> NoToken,
           store |-> [a \in DOMAIN TOKEN_STORE \ {athlete} |-> TOKEN_STORE[a]],
           refresh |-> TRUE]}
         \cup
         {[status |-> 200,
           token |-> RefreshedRecord(TOKEN_STORE[athlete], t).access_token,
           store |-> [TOKEN_STORE EXCEPT
                         ![athlete] = RefreshedRecord(TOKEN_STORE[athlete], t)],
           refresh |-> TRUE]
            : t \in TokenResponses(athlete)}

\* _ensure_token: the outcomes the call can have, each with the status (200,
\* or the HTTPException's), the token returned, the token store it leaves and
\* whether it posted a refresh to the upstream.
\* The refresh exchange answers with a non-success status or with a token.
EnsureToken(athlete) ==
    IF athlete \notin DOMAIN TOKEN_STORE
    THEN {[status |-> 401, token |-> NoToken, store |-> TOKEN_STORE,
           refresh |-> FALSE]}
    ELSE IF StillValid(TOKEN_STORE[athlete])
    THEN {[status |-> 200, token |-> TOKEN_STORE[athlete].access_token,
           store |-> TOKEN_STORE, refresh |-> FALSE]}
    ELSE {[status |-> 502, token |-> NoToken, store |-> TOKEN_STORE,
           refresh |-> TRUE]}
         \cup
         {[status |-> 200,
           token |-> RefreshedRecord(TOKEN_STORE[athlete], t).access_token,
           store |-> [TOKEN_STORE EXCEPT
                         ![athlete] = RefreshedRecord(TOKEN_STORE[athlete], t)],
           refresh |-> TRUE]
            : t \in TokenResponses(athlete)}

\* _ensure_token called for an athlete, as every Strava endpoint does first
ensure_token(athlete) ==
    \E e \in EnsureToken(athlete) :
       /\ TOKEN_STORE' = e.store
       /\ last' = [op |-> "_ensure_token", id |-> athlete,
                    status |-> e.status, token |-> e.token,
                    refresh |-> e.refresh]
       /\ UNCHANGED <<OAUTH_STATES, issued, now, refreshes>>

\* athlete resolution followed by _ensure_token, as every endpoint starts
ResolveAndEnsure(maybe_id) ==
    LET r == ResolveAthlete(maybe_id)
    IN  IF r.status # 200
        THEN {[status |-> r.status, token |-> NoToken, store |-> TOKEN_STORE,
               athlete |-> 0]}
        ELSE {[status |-> e.status, token |-> e.token, store |-> e.store,
               athlete |-> r.athlete] : e \in EnsureToken(r.athlete)}

\* _ensure_token as the event loop runs it: the call runs to its
\* `await client.post(...)`, other calls run while it waits for the answer,
\* and the rest runs when the answer is there. A call slot holds where the
\* call is, the athlete, the `rec` it read when that dict is no longer the
\* store's (<<>> while it is), what it returned, and as history the answer
\* the upstream gave it, whether it waited together with another call of the
\* athlete and whether the athlete's record was written after its own write.
Calls == 1..MaxCalls
IdleRefresh ==
    [pc |-> "idle", athlete |-> 0, rec |-> <<>>, status |-> 0,
     token |-> NoToken, refresh |-> FALSE, response |-> <<>>,
     overlapped |-> FALSE, overwritten |-> FALSE]

\* The answers of the upstream to a refresh: a token or a non-success status.
RefreshAnswers(athlete) ==
    {[status |-> 400, token |-> <<>>]}
    \cup {[status |-> 200, token |-> <<t>>] : t \in TokenResponses(athlete)}

\* _TOKEN_STORE[int(athlete_id)] = {...} puts a new dict in the store: a call
\* that waits with the old dict in `rec` keeps that dict, and the record a
\* finished call wrote is gone.
Replaced(athlete) ==
    [c \in Calls |->
       IF refreshes[c].athlete # athlete THEN refreshes[c]
       ELSE IF refreshes[c].pc = "refreshing" /\ refreshes[c].rec = <<>>
       THEN [refreshes[c] EXCEPT !.rec = <<TOKEN_STORE[athlete]>>]
       ELSE IF refreshes[c].pc = "done"
       THEN [refreshes[c] EXCEPT !.overwritten = TRUE]
       ELSE refreshes[c]]

\* _ensure_token up to the await: 401 without a record, the cached token
\* while it is valid, and otherwise the refresh is posted.
ensure_token_begin(c, athlete) ==
    /\ refreshes[c].pc = "idle"
    /\ IF athlete \notin DOMAIN TOKEN_STORE
       THEN refreshes' = [refreshes EXCEPT ![c] =
                [IdleRefresh EXCEPT !.pc = "done", !.athlete = athlete,
                                    !.status = 401]]
       ELSE IF StillValid(TOKEN_STORE[athlete])
       THEN refreshes' = [refreshes EXCEPT ![c] =
                [IdleRefresh EXCEPT !.pc = "done", !.athlete = athlete,
                    !.status = 200,
                    !.token = TOKEN_STORE[athlete].access_token]]
       ELSE LET others == {d \in Calls \ {c} :
                              /\ refreshes[d].pc = "refreshing"
                              /\ refreshes[d].athlete = athlete}
            IN  refreshes' =
                  [d \in Calls |->
                     IF d = c
                     THEN [IdleRefresh EXCEPT !.pc = "refreshing",
                              !.athlete = athlete, !.refresh = TRUE,
                              !.overlapped = (others # {})]
                     ELSE IF d \in others
                     THEN [refreshes[d] EXCEPT !.overlapped = TRUE]
                     ELSE refreshes[d]]
    /\ UNCHANGED <<TOKEN_STORE, OAUTH_STATES, issued, now>>

\* _ensure_token from the answer on: 502 on a non-success status, else
\* rec.update({...}) and the access token of rec is returned. The update
\* reaches the store when rec is still the store's dict.
ensure_token_end(c, answer) ==
    /\ refreshes[c].pc = "refreshing"
    /\ LET athlete == refreshes[c].athlete
           held == refreshes[c].rec # <<>>
           rec == IF held THEN refreshes[c].rec[1] ELSE TOKEN_STORE[athlete]
       IN  IF answer.status # 200
           THEN /\ refreshes' = [refreshes EXCEPT ![c].pc = "done",
                                    ![c].status = 502, ![c].rec = <<>>,
                                    ![c].overwritten = held]
                /\ UNCHANGED TOKEN_STORE
           ELSE LET updated == RefreshedRecord(rec, answer.token[1])
                IN  /\ refreshes' =
                          [d \in Calls |->
                             IF d = c
                             THEN [refreshes[c] EXCEPT !.pc = "done",
                                      !.status = 200, !.rec = <<>>,
                                      !.token = updated.access_token,
                                      !.response = answer.token,
                                      !.overwritten = held]
                             ELSE IF /\ ~held
                                     /\ refreshes[d].pc = "done"
                                     /\ refreshes[d].athlete = athlete
                             THEN [refreshes[d] EXCEPT !.overwritten = TRUE]
                             ELSE refreshes[d]]
                    /\ TOKEN_STORE' =
                          IF held THEN TOKEN_STORE
                          ELSE [TOKEN_STORE EXCEPT ![athlete] = updated]
    /\ UNCHANGED <<OAUTH_STATES, issued, now>>

\* the caller has its answer: the slot is free for the next call
ensure_token_return(c) ==
    /\ refreshes[c].pc = "done"
    /\ refreshes' = [refreshes EXCEPT ![c] = IdleRefresh]
    /\ UNCHANGED <<TOKEN_STORE, OAUTH_STATES, issued, now>>

\* connect: a fresh uuid4 state, remembered in _OAUTH_STATES and set as the
\* cookie of the browser that asked.
connect(state) ==
    /\ state \notin issued
    /\ issued' = issued \cup {state}
    /\ OAUTH_STATES' = OAUTH_STATES \cup {state}
    /\ last' = [op |-> "connect", id |-> state, status |-> 302]
    /\ UNCHANGED <<TOKEN_STORE, now, refreshes>>

\* oauth_callback's CSRF check
StateValid(cookie_state, state) ==
    \/ (cookie_state # 0 /\ state # 0 /\ cookie_state = state)
    \/ state \in OAUTH_STATES

\* A callback that files the token body before it looks at the status and
\* the completeness of the exchange.
oauth_callback_filing_first(code, state, error, cookie_state, exchange) ==
    /\ UNCHANGED <<issued, now>>
    /\ IF error # None \/ code = None \/ ~StateValid(cookie_state, state)
       THEN /\ last' = [op |-> "oauth_callback", id |-> state, status |-> 400]
            /\ UNCHANGED <<TOKEN_STORE, OAUTH_STATES, refreshes>>
       ELSE /\ OAUTH_STATES' = OAUTH_STATES \ {state}
            /\ last' = [op |-> "oauth_callback", id |-> state,
                        status |-> IF exchange.status # 200 \/ ~exchange.complete
                                   THEN 502 ELSE 302]
            /\ refreshes' = Replaced(exchange.token.athlete)
            /\ TOKEN_STORE' =
                  [a \in DOMAIN TOKEN_STORE \cup {exchange.token.athlete} |->
                     IF a = exchange.token.athlete
                     THEN [access_token |-> exchange.token.access_token,
                           refresh_token |-> exchange.token.refresh_token,
                           expires_at |-> exchange.token.expires_at,
                           athlete |-> a]
                     ELSE TOKEN_STORE[a]]

\* oauth_callback: `exchange` is the upstream's answer to the code exchange,
\* a status and the token body.
oauth_callback(code, state, error, cookie_state, exchange) ==
    /\ UNCHANGED <<issued, now>>
    /\ IF error # None \/ code = None \/ ~StateValid(cookie_state, state)
       THEN /\ last' = [op |-> "oauth_callback", id |-> state, status |-> 400]
            /\ UNCHANGED <<TOKEN_STORE, OAUTH_STATES, refreshes>>
       ELSE /\ OAUTH_STATES' = OAUTH_STATES \ {state}
            /\ IF exchange.status # 200 \/ ~exchange.complete
               THEN /\ last' = [op |-> "oauth_callback", id |-> state,
                                status |-> 502]
                    /\ UNCHANGED <<TOKEN_STORE, refreshes>>
               ELSE /\ last' = [op |-> "oauth_callback", id |-> state,
                                status |-> 302]
                    /\ refreshes' = Replaced(exchange.token.athlete)
                    /\ TOKEN_STORE' =
                        [a \in DOMAIN TOKEN_STORE \cup {exchange.token.athlete} |->
                           IF a = exchange.token.athlete
                           THEN [access_token |-> exchange.token.access_token,
                                 refresh_token |-> exchange.token.refresh_token,
                                 expires_at |-> exchange.token.expires_at,
                                 athlete |-> a]
                           ELSE TOKEN_STORE[a]]

\* ------------------------------ app/api/runs.py: import from Strava
\* CreateRunFromStravaIn: the bodies POST /runs/from-strava is sent.
ImportBodies ==
    [ activity_id : ActivityIds, athlete_id : Athletes \cup {0},
      title : {None}, unit : Units, run_type : {"Easy Run", "Race"} ]

\* round(distance_m / M_PER_MI, 3) in thousandths of a mile:
\* 1000 / 1609.344 = 15625 / 25146.
MetresToMilli(distance_m, unit) ==
    IF unit = "mi" THEN RoundHalfEven(distance_m * 15625, 25146)
    ELSE distance_m

\* The RunIn create_run_from_strava maps the activity detail to.
MappedRun(payload, act) ==
    [ title |-> IF payload.title # None THEN payload.title
                ELSE IF act.name # "" THEN act.name ELSE "Strava Run",
      description |-> "",
      started_at |-> act.start,
      distance |-> MetresToMilli(act.distance, payload.unit),
      unit |-> payload.unit,
      duration_s |-> act.moving_time,
      run_type |-> payload.run_type ]

\* create_run_from_strava: its outcomes, each with the response status, the
\* token store it leaves, the athlete whose token it asked for (0: none was
\* resolved) and, for 201, the run body handed to create_run.
\* The detail fetch answers 200 with the activity or a non-success status.
ImportOutcomes(payload) ==
    LET act == Activity(payload.activity_id)
        run == MappedRun(payload, act)
    IN  UNION {
          IF e.status # 200
          THEN {[status |-> e.status, store |-> e.store, run |-> Absent,
                 athlete |-> e.athlete]}
          ELSE {[status |-> 502, store |-> e.store, run |-> Absent,
                 athlete |-> e.athlete],
                IF RunInValid(run)
                THEN [status |-> 201, store |-> e.store, run |-> run,
                      athlete |-> e.athlete]
                ELSE [status |-> 500, store |-> e.store, run |-> Absent,
                      athlete |-> e.athlete]}
          : e \in ResolveAndEnsure(payload.athlete_id) }

\* The effect of one outcome of create_run_from_strava on the store.
ApplyImport(o, activity_id) ==
    /\ TOKEN_STORE' = o.store
    /\ IF o.status = 201
       THEN /\ nextId <= MaxIds
            /\ DB' = DBInsert(DB, MkRun(nextId, o.run))
            /\ nextId' = nextId + 1
            /\ provenance' = provenance \cup {<<nextId, activity_id>>}
            /\ last' = [op |-> "create_run_from_strava", id |-> nextId,
                        status |-> 201, athlete |-> o.athlete]
       ELSE /\ last' = [op |-> "create_run_from_strava", id |-> 0,
                        status |-> o.status, athlete |-> o.athlete]
            /\ UNCHANGED <<DB, nextId, provenance>>
    /\ UNCHANGED <<deleted, OAUTH_STATES, issued, now, refreshes>>

create_run_from_strava(payload) ==
    \E o \in ImportOutcomes(payload) : ApplyImport(o, payload.activity_id)

\* ------------------------------------ app/api/strava.py: bulk sync
SyncIds == {1, 2}

\* round(x / 10) * 10 and round(dist / 0.02): the bucket numbers (the code
\* multiplies the distance bucket by 0.02 again, which keeps buckets apart).
DurKey(duration_s) == RoundHalfEven(duration_s, 10) * 10
DistKeyOfRun(distance) == RoundHalfEven(distance, 20)
\* round(((distance_m) / M_PER_MI) / 0.02): 1 / (1609.344 * 0.02) = 3125 / 100584
DistKeyOfActivity(distance_m) == RoundHalfEven(distance_m * 3125, 100584)

\* The key of a stored run, from GET /runs.
RunKey(run) ==
    <<run.started_at.day, DistKeyOfRun(run.distance), DurKey(run.duration_s)>>

\* The key of a listed activity.
ActivityKey(it) ==
    <<it.start.day, DistKeyOfActivity(it.distance), DurKey(it.moving_time)>>

\* existing_keyset as built from the runs GET /runs returned
LoadedKeyset(db) == {RunKey(db[i]) : i \in 1..Len(db)}

\* The try block around GET /runs: except Exception: existing_keyset = set()
KeysetAfterLoad(ok, db) == IF ok THEN LoadedKeyset(db) ELSE {}

\* What a dry run over the same pages does, kept beside a real run: the key
\* set as loaded (a dry run never adds to it), its budget and its list.
IdleShadow == [existing_keyset |-> {}, remaining |-> 0, skipped |-> <<>>]

IdleSync ==
    [ pc |-> "idle", athlete_id |-> 0, token |-> NoToken, after |-> None,
      max_import |-> 0, dry_run |-> FALSE, existing_keyset |-> {},
      remaining |-> 0, page |-> 1, items |-> <<>>,
      imported |-> <<>>, skipped |-> <<>>, already |-> <<>>, errors |-> <<>>,
      status |-> 0,
      \* history
      fetches |-> 0, served |-> 0, pageFailed |-> FALSE, loadOk |-> TRUE,
      lastId |-> 0, startRuns |-> {}, unprocessed |-> <<>>,
      alone |-> TRUE, disconnected |-> FALSE, shadow |-> IdleShadow ]

Afters == {None, "yesterday"}
\* datetime.fromisoformat(after) succeeds
AfterParses(after) == after # "yesterday"

\* sync_all_runs up to the token: athlete and token resolution.
sync_start(s, athlete_id, after, max_import, dry_run) ==
    /\ sync[s].pc = "idle"
    /\ \E e \in ResolveAndEnsure(athlete_id) :
         /\ TOKEN_STORE' = e.store
         /\ sync' = [o \in SyncIds |->
              IF o = s
              THEN [IdleSync EXCEPT
                      !.pc = IF e.status = 200 THEN "load" ELSE "failed",
                      !.status = IF e.status = 200 THEN 0 ELSE e.status,
                      !.athlete_id = e.athlete, !.token = e.token,
                      !.after = after, !.max_import = max_import,
                      !.dry_run = dry_run, !.startRuns = SeqToSet(DB),
                      !.alone = \A x \in SyncIds \ {s} : sync[x].pc = "idle"]
              ELSE IF sync[o].pc # "idle"
              THEN [sync[o] EXCEPT !.alone = FALSE]
              ELSE sync[o]]
    /\ UNCHANGED <<DB, nextId, last, provenance, deleted, OAUTH_STATES, issued,
                   now, refreshes>>

\* The existing runs are loaded (ok: GET /runs answered), `after` is parsed
\* and the counters are set up.
sync_load(s, ok) ==
    /\ sync[s].pc = "load"
    /\ sync' = [sync EXCEPT ![s] =
         IF AfterParses(sync[s].after)
         THEN [@ EXCEPT !.pc = "page",
                        !.existing_keyset = KeysetAfterLoad(ok, DB),
                        !.loadOk = ok,
                        !.remaining = sync[s].max_import, !.page = 1,
                        !.shadow = [existing_keyset |-> KeysetAfterLoad(ok, DB),
                                    remaining |-> sync[s].max_import,
                                    skipped |-> <<>>]]
         ELSE [@ EXCEPT !.pc = "failed", !.status = 400,
                        !.existing_keyset = KeysetAfterLoad(ok, DB),
                        !.loadOk = ok]]
    /\ UNCHANGED <<DB, nextId, last, provenance, deleted, TOKEN_STORE,
                   OAUTH_STATES, issued, now, refreshes>>

\* while remaining > 0
LoopGoesOn(remaining) == remaining > 0

\* A loop that takes an empty page for one more page.
EndOfDataNever(items) == FALSE

\* if not items: break
EndOfData(items) == items = <<>>

\* A loop that reads the body of any answer.
PageFailedNever(resp) == FALSE

\* if resp.status_code != 200: break
PageFailed(resp) == resp = "status"

\* One turn of the while loop up to the items: the page fetch answers 200
\* with `items` ("ok"), a non-success status ("status") or raises ("raise").
\* The upstream serves at most MaxPages pages that hold activities, and goes
\* on in its listing order from the page before (its last activity may come
\* again).
sync_page(s, resp, items) ==
    /\ sync[s].pc = "page"
    /\ items # <<>> => sync[s].served < MaxPages /\ sync[s].lastId <= Head(items)
    /\ sync' = [sync EXCEPT ![s] =
         IF ~LoopGoesOn(sync[s].remaining)
         THEN [@ EXCEPT !.pc = "done", !.status = 200]
         ELSE IF resp = "raise"
         THEN [@ EXCEPT !.pc = "failed", !.status = 500, !.fetches = @ + 1]
         ELSE IF PageFailed(resp)
         THEN [@ EXCEPT !.pc = "done", !.status = 200, !.fetches = @ + 1,
                        !.pageFailed = TRUE]
         ELSE IF EndOfData(items)
         THEN [@ EXCEPT !.pc = "done", !.status = 200, !.fetches = @ + 1,
                        !.pageFailed = (resp = "status")]
         ELSE [@ EXCEPT !.pc = "items", !.items = items, !.fetches = @ + 1,
                        !.pageFailed = (resp = "status"),
                        !.served = IF items = <<>> THEN @ ELSE @ + 1,
                        !.lastId = IF items = <<>> THEN @
                                   ELSE items[Len(items)]]]
    /\ UNCHANGED <<DB, nextId, last, provenance, deleted, TOKEN_STORE,
                   OAUTH_STATES, issued, now, refreshes>>

\* (it.get("type") or "").lower() != "run": continue
IsRun(it) == Lower(it.type) = "run"

\* key in existing_keyset
AlreadyPresent(key, existing_keyset) == key \in existing_keyset

\* A loop whose for body lacks the budget test.
BudgetSpentNever(remaining) == FALSE

\* if remaining <= 0: break
BudgetSpent(remaining) == remaining <= 0

\* A sync that ignores the flag.
IsDryRunNever(rec) == FALSE

\* if dry_run
IsDryRun(rec) == rec.dry_run

\* A dry_run branch that leaves the budget alone.
DryRunItemUncounted(rec, it) == [rec EXCEPT !.skipped = Append(@, it.id)]

\* The dry_run branch: would import, nothing is created.
DryRunItem(rec, it) ==
    [rec EXCEPT !.skipped = Append(@, it.id), !.remaining = @ - 1]

\* The dry run kept beside: the same item under the dry_run branch.
ShadowItem(sh, it) ==
    IF BudgetSpent(sh.remaining) \/ ~IsRun(it)
       \/ AlreadyPresent(ActivityKey(it), sh.existing_keyset)
    THEN sh
    ELSE DryRunItem(sh, it)

\* A bookkeeping that leaves the key set as it was loaded.
AfterImportKeyless(rec, it, status) ==
    IF status \in {200, 201}
    THEN [rec EXCEPT !.imported = Append(@, it.id), !.remaining = @ - 1]
    ELSE [rec EXCEPT !.errors = Append(@, [activity_id |-> it.id,
                                           status |-> status]),
                     !.remaining = @ - 1]

\* The bookkeeping after POST /runs/from-strava answered with `status`
\* (0: the call raised).
AfterImport(rec, it, status) ==
    IF status \in {200, 201}
    THEN [rec EXCEPT !.imported = Append(@, it.id),
                     !.existing_keyset = @ \cup {ActivityKey(it)},
                     !.remaining = @ - 1]
    ELSE [rec EXCEPT !.errors = Append(@, [activity_id |-> it.id,
                                           status |-> status]),
                     !.remaining = @ - 1]

\* The item is done with: the for loop moves on.
NextItem(rec, it) ==
    [rec EXCEPT !.items = Tail(@), !.shadow = ShadowItem(@, it)]

\* One turn of the for loop over the items of the page.
sync_item(s) ==
    /\ sync[s].pc = "items"
    /\ UNCHANGED <<deleted, OAUTH_STATES, issued, now, refreshes>>
    /\ LET rec == sync[s]
           it == Activity(Head(rec.items))
       IN  IF rec.items = <<>>
           THEN /\ sync' = [sync EXCEPT ![s] =
                              [rec EXCEPT !.pc = "page", !.page = @ + 1]]
                /\ UNCHANGED <<DB, nextId, last, provenance, TOKEN_STORE>>
           ELSE IF BudgetSpent(rec.remaining)
           THEN /\ sync' = [sync EXCEPT ![s] =
                              [rec EXCEPT !.pc = "page", !.page = @ + 1,
                                          !.items = <<>>,
                                          !.unprocessed = rec.items]]
                /\ UNCHANGED <<DB, nextId, last, provenance, TOKEN_STORE>>
           ELSE IF ~IsRun(it)
           THEN /\ sync' = [sync EXCEPT ![s] = NextItem(rec, it)]
                /\ UNCHANGED <<DB, nextId, last, provenance, TOKEN_STORE>>
           ELSE IF AlreadyPresent(ActivityKey(it), rec.existing_keyset)
           THEN /\ sync' = [sync EXCEPT ![s] =
                              NextItem([rec EXCEPT !.already = Append(@, it.id)],
                                       it)]
                /\ UNCHANGED <<DB, nextId, last, provenance, TOKEN_STORE>>
           ELSE IF IsDryRun(rec)
           THEN /\ sync' = [sync EXCEPT ![s] = NextItem(DryRunItem(rec, it), it)]
                /\ UNCHANGED <<DB, nextId, last, provenance, TOKEN_STORE>>
           ELSE \/ \E o \in ImportOutcomes(
                              [activity_id |-> it.id, athlete_id |-> 0,
                               title |-> None, unit |-> "mi",
                               run_type |-> "Easy Run"]) :
                      /\ ApplyImport(o, it.id)
                      /\ sync' = [sync EXCEPT ![s] =
                                    NextItem(AfterImport(rec, it, o.status), it)]
                \/ /\ sync' = [sync EXCEPT ![s] =
                                 NextItem(AfterImport(rec, it, 0), it)]
                   /\ UNCHANGED <<DB, nextId, last, provenance, TOKEN_STORE>>

\* The client of the call goes away while the call runs. The handler has
\* the Request, and nothing in it asks the Request whether the client is
\* still there: the call goes on as before.
client_disconnect(s) ==
    /\ sync[s].pc \in {"load", "page", "items"}
    /\ ~sync[s].disconnected
    /\ sync' = [sync EXCEPT ![s].disconnected = TRUE]
    /\ UNCHANGED <<DB, nextId, last, provenance, deleted, TOKEN_STORE,
                   OAUTH_STATES, issued, now, refreshes>>

\* The call returns: its JSON summary, or the exception's status.
sync_return(s) ==
    /\ sync[s].pc \in {"done", "failed"}
    /\ sync' = [sync EXCEPT ![s] = IdleSync]
    /\ UNCHANGED <<DB, nextId, last, provenance, deleted, TOKEN_STORE,
                   OAUTH_STATES, issued, now, refreshes>>

\* ------------------------------- app/services/runs.py: RunsService
Threads == {1, 2}

\* datetime.isoformat() of a start time, as the text SQLite stores and
\* compares: the date, the hour, then the offset's sign character ("+" is
\* 43, "-" is 45) and its hours.
IsoFormat(t) ==
    <<t.day, t.hour, IF t.off < 0 THEN 45 ELSE 43,
      IF t.off < 0 THEN 0 - t.off ELSE t.off>>

\* pydantic's parse of the stored ISO text
ParseIso(text) ==
    [day |-> text[1], hour |-> text[2],
     off |-> IF text[3] = 45 THEN 0 - text[4] ELSE text[4]]

\* The instant a start time denotes, in hours.
Instant(t) == t.day * 24 + t.hour - t.off

\* _sec_to_mmss: minutes and seconds of "MM:SS"
sec_to_mmss(sec) == IF sec <= 0 THEN <<0, 0>> ELSE <<sec \div 60, sec % 60>>

\* RunCreate: the payloads create and update are called with (validated:
\* distance > 0, duration_s >= 1).
RunCreates ==
    [ title : {"Run 1", "Run 2"}, description : {"test"}, started_at : StartTimes,
      distance : {5000}, unit : {"mi"}, duration_s : {2400},
      run_type : {"Easy Run", "Race"}, elevation_ft : {None},
      source : {None}, source_ref : {None}, pace_s : {NoInt, 300},
      pace : {NoPace} ]

\* int(round(payload.duration_s / payload.distance)) when not provided
ComputedPaceS(payload) ==
    IF payload.pace_s = NoInt /\ payload.distance > 0 /\ payload.duration_s > 0
    THEN RoundHalfEven(payload.duration_s * 1000, payload.distance)
    ELSE payload.pace_s

\* `x if x else None` for an optional integer
Truthy(x) == x # NoInt /\ x # 0

\* The column values INSERT and UPDATE bind for a payload.
RowOf(run_id, payload) ==
    LET pace_s == ComputedPaceS(payload)
    IN  [ id |-> run_id, title |-> payload.title,
          description |-> payload.description,
          started_at |-> IsoFormat(payload.started_at),
          distance |-> payload.distance, unit |-> payload.unit,
          duration_s |-> payload.duration_s,
          elevation_ft |-> payload.elevation_ft,
          source |-> payload.source, source_ref |-> payload.source_ref,
          pace_s |-> IF Truthy(pace_s) THEN pace_s ELSE NoInt,
          pace |-> IF payload.pace # NoPace THEN payload.pace
                   ELSE IF Truthy(pace_s) THEN sec_to_mmss(pace_s) ELSE NoPace ]

\* _row_to_model: run_type is no column, the model's default stands.
row_to_model(row) ==
    [ id |-> row.id, title |-> row.title, description |-> row.description,
      started_at |-> ParseIso(row.started_at), distance |-> row.distance,
      unit |-> row.unit, duration_s |-> row.duration_s,
      run_type |-> "Easy Run", elevation_ft |-> row.elevation_ft,
      source |-> row.source, source_ref |-> row.source_ref,
      pace_s |-> row.pace_s, pace |-> row.pace ]

RowIds == {r.id : r \in rows}
RowById(run_id) == CHOOSE r \in rows : r.id = run_id

\* Lexicographic order of two texts of the same layout.
TextLess(a, b) ==
    \E i \in 1..Len(a) :
       /\ a[i] < b[i]
       /\ \A j \in 1..(i - 1) : a[j] = b[j]

\* ORDER BY started_at DESC, id DESC: r comes before q.
OrderedBefore(r, q) ==
    \/ TextLess(q.started_at, r.started_at)
    \/ (q.started_at = r.started_at /\ q.id < r.id)

RECURSIVE SortRows(_)
SortRows(set) ==
    IF set = {} THEN <<>>
    ELSE LET first == CHOOSE r \in set :
                         \A q \in set \ {r} : OrderedBefore(r, q)
         IN  <<first>> \o SortRows(set \ {first})

\* RunsService.list_runs
svc_list_runs == [i \in 1..Cardinality(rows) |-> row_to_model(SortRows(rows)[i])]

\* RunsService.get
svc_get(run_id) ==
    IF run_id \in RowIds THEN row_to_model(RowById(run_id)) ELSE Absent

\* rowid: as history, the rowid the call's INSERT was given, while the call
\* is between its INSERT and its return.
IdleCall == [pc |-> "idle", op |-> None, run_id |-> 0, payload |-> Absent,
             result |-> Absent, rowid |-> 0]

\* RunsService.create, the INSERT under the lock.
svc_create_insert(t, payload) ==
    /\ svc[t].pc = "idle"
    /\ rowSeq < MaxRowId
    /\ rows' = rows \cup {RowOf(rowSeq + 1, payload)}
    /\ rowSeq' = rowSeq + 1
    /\ last_insert_rowid' = rowSeq + 1
    /\ svc' = [svc EXCEPT ![t] = [IdleCall EXCEPT !.pc = "inserted",
                                    !.op = "create", !.payload = payload,
                                    !.rowid = rowSeq + 1]]

\* RunsService.create, after the lock: SELECT last_insert_rowid(), get.
svc_create_return(t) ==
    /\ svc[t].pc = "inserted"
    /\ svc' = [svc EXCEPT ![t] = [@ EXCEPT !.pc = "idle",
                                    !.run_id = last_insert_rowid,
                                    !.result = svc_get(last_insert_rowid),
                                    !.rowid = 0]]
    /\ UNCHANGED <<rows, rowSeq, last_insert_rowid>>

\* RunsService.delete
svc_delete(t, run_id) ==
    /\ svc[t].pc = "idle"
    /\ rows' = {r \in rows : r.id # run_id}
    /\ svc' = [svc EXCEPT ![t] = [IdleCall EXCEPT !.op = "delete",
                                    !.run_id = run_id]]
    /\ UNCHANGED <<rowSeq, last_insert_rowid>>

\* if not self.get(run_id): return None
UpdateFinds(run_id) == svc_get(run_id) # Absent

\* RunsService.update, the existence check.
svc_update_check(t, run_id, payload) ==
    /\ svc[t].pc = "idle"
    /\ svc' = [svc EXCEPT ![t] =
         [IdleCall EXCEPT !.pc = IF UpdateFinds(run_id) THEN "checked"
                                 ELSE "idle",
                          !.op = "update", !.run_id = run_id,
                          !.payload = payload]]
    /\ UNCHANGED <<rows, rowSeq, last_insert_rowid>>

\* An update that writes the row whether or not it is there.
UpsertedRows(run_id, payload) ==
    {r \in rows : r.id # run_id} \cup {RowOf(run_id, payload)}

\* UPDATE runs SET ... WHERE id = ?
UpdatedRows(run_id, payload) ==
    {IF r.id = run_id THEN RowOf(run_id, payload) ELSE r : r \in rows}

\* RunsService.update, the UPDATE under the lock.
svc_update_write(t) ==
    /\ svc[t].pc = "checked"
    /\ rows' = UpdatedRows(svc[t].run_id, svc[t].payload)
    /\ svc' = [svc EXCEPT ![t] = [@ EXCEPT !.pc = "written"]]
    /\ UNCHANGED <<rowSeq, last_insert_rowid>>

\* RunsService.update, return self.get(run_id).
svc_update_return(t) ==
    /\ svc[t].pc = "written"
    /\ svc' = [svc EXCEPT ![t] = [@ EXCEPT !.pc = "idle",
                                    !.result = svc_get(svc[t].run_id)]]
    /\ UNCHANGED <<rows, rowSeq, last_insert_rowid>>

\* ------------------------------------------- app/utils/durations.py
\* A str is a sequence of one-character strings; an Optional value is the
\* empty tuple (None) or the one-tuple of the value.
Nothing == <<>>
Some(x) == <<x>>

DigitChars == <<"0", "1", "2", "3", "4", "5", "6", "7", "8", "9">>
IsDigit(c) == \E d \in 1..10 : DigitChars[d] = c
DigitOf(c) == (CHOOSE d \in 1..10 : DigitChars[d] = c) - 1

\* str(n) for n >= 0
RECURSIVE Decimal(_)
Decimal(n) ==
    IF n < 10 THEN <<DigitChars[n + 1]>>
    ELSE Decimal(n \div 10) \o <<DigitChars[(n % 10) + 1]>>

\* f"{n:02d}" for n >= 0: at least two digits, zero-padded on the left
Pad2(n) == IF n < 10 THEN <<"0">> \o Decimal(n) ELSE Decimal(n)

\* s.split(":")
RECURSIVE Split(_)
Split(s) ==
    IF \A i \in 1..Len(s) : s[i] # ":" THEN <<s>>
    ELSE LET i == CHOOSE k \in 1..Len(s) :
                      s[k] = ":" /\ \A j \in 1..(k - 1) : s[j] # ":"
         IN  <<SubSeq(s, 1, i - 1)>> \o Split(SubSeq(s, i + 1, Len(s)))

RECURSIVE DigitsValue(_)
DigitsValue(ds) ==
    IF ds = <<>> THEN 0
    ELSE DigitsValue(SubSeq(ds, 1, Len(ds) - 1)) * 10 + DigitOf(ds[Len(ds)])

\* int(part): a ValueError (ok = FALSE) unless the part is an optional minus
\* sign followed by one or more digits.
ParseInt(part) ==
    LET neg == part # <<>> /\ Head(part) = "-"
        body == IF neg THEN Tail(part) ELSE part
    IN  IF body = <<>> \/ \E i \in 1..Len(body) : ~IsDigit(body[i])
        THEN [ok |-> FALSE, value |-> 0]
        ELSE [ok |-> TRUE,
              value |-> IF neg THEN 0 - DigitsValue(body) ELSE DigitsValue(body)]

ValueError == [ok |-> FALSE, value |-> 0]

\* parse_time_hhmmss
parse_time_hhmmss(s) ==
    LET parts == Split(s)
    IN  IF Len(parts) = 2
        THEN LET mm == ParseInt(parts[1])
                 ss == ParseInt(parts[2])
             IN  IF ~mm.ok \/ ~ss.ok THEN ValueError
                 ELSE IF ~(0 <= mm.value /\ 0 <= ss.value /\ ss.value < 60)
                 THEN ValueError
                 ELSE [ok |-> TRUE, value |-> mm.value * 60 + ss.value]
        ELSE IF Len(parts) = 3
        THEN LET hh == ParseInt(parts[1])
                 mm == ParseInt(parts[2])
                 ss == ParseInt(parts[3])
             IN  IF ~hh.ok \/ ~mm.ok \/ ~ss.ok THEN ValueError
                 ELSE IF ~(/\ 0 <= mm.value /\ mm.value < 60
                           /\ 0 <= ss.value /\ ss.value < 60
                           /\ hh.value >= 0)
                 THEN ValueError
                 ELSE [ok |-> TRUE,
                       value |-> hh.value * 3600 + mm.value * 60 + ss.value]
        ELSE ValueError

\* format_time_hhmmss
format_time_hhmmss(seconds) ==
    IF seconds < 0 THEN [ok |-> FALSE, value |-> <<>>]
    ELSE LET hh == seconds \div 3600
             rest == seconds % 3600
             mm == rest \div 60
             ss == rest % 60
         IN  [ok |-> TRUE,
              value |-> Pad2(hh) \o <<":">> \o Pad2(mm) \o <<":">> \o Pad2(ss)]

\* parse_pace_mmss with the minutes kept below sixty
parse_pace_mmss_lt60(s) ==
    LET parts == Split(s)
    IN  IF Len(parts) # 2 THEN ValueError
        ELSE LET mm == ParseInt(parts[1])
                 ss == ParseInt(parts[2])
             IN  IF ~mm.ok \/ ~ss.ok THEN ValueError
                 ELSE IF ~(/\ 0 <= mm.value /\ mm.value < 60
                           /\ 0 <= ss.value /\ ss.value < 60)
                 THEN ValueError
                 ELSE [ok |-> TRUE, value |-> mm.value * 60 + ss.value]

\* parse_pace_mmss
parse_pace_mmss(s) ==
    LET parts == Split(s)
    IN  IF Len(parts) # 2 THEN ValueError
        ELSE LET mm == ParseInt(parts[1])
                 ss == ParseInt(parts[2])
             IN  IF ~mm.ok \/ ~ss.ok THEN ValueError
                 ELSE IF ~(0 <= mm.value /\ 0 <= ss.value /\ ss.value < 60)
                 THEN ValueError
                 ELSE [ok |-> TRUE, value |-> mm.value * 60 + ss.value]

\* format_pace_mmss
format_pace_mmss(seconds_per_unit) ==
    IF seconds_per_unit < 0 THEN [ok |-> FALSE, value |-> <<>>]
    ELSE LET mm == seconds_per_unit \div 60
             ss == seconds_per_unit % 60
         IN  [ok |-> TRUE, value |-> Pad2(mm) \o <<":">> \o Pad2(ss)]

\* ----------------------------------------- app/services/pace_calc.py
\* Distances are floats; the model carries them in thousandths of a unit and
\* draws only values a float holds exactly, so that Python's quotient and
\* product are the exact ones and round() rounds them half to even.
DistanceScale == 1000

\* pace_from_distance_time: int(round(total_seconds / distance))
pace_from_distance_time(distance, total_seconds) ==
    IF distance = 0 THEN [ok |-> FALSE, value |-> 0]
    ELSE [ok |-> TRUE,
          value |-> RoundHalfEven(total_seconds * DistanceScale, distance)]

\* the product taken with the whole units of the distance only
time_from_whole_distance_pace(distance, pace_seconds_per_unit) ==
    (distance \div DistanceScale) * pace_seconds_per_unit

\* time_from_distance_pace: int(round(distance * pace_seconds_per_unit))
time_from_distance_pace(distance, pace_seconds_per_unit) ==
    RoundHalfEven(distance * pace_seconds_per_unit, DistanceScale)

\* distance_from_time_pace: total_seconds / pace_seconds_per_unit, here as the
\* fraction <<numerator, denominator>>; ZeroDivisionError when the pace is 0.
distance_from_time_pace(total_seconds, pace_seconds_per_unit) ==
    IF pace_seconds_per_unit = 0 THEN [ok |-> FALSE, value |-> <<0, 1>>]
    ELSE [ok |-> TRUE, value |-> <<total_seconds, pace_seconds_per_unit>>]

\* ---------------------------------------------- app/api/pace_calc.py
\* round(distance, 2) of the fraction num/den, in hundredths of a unit
Round2(fraction) == RoundHalfEven(fraction[1] * 100, fraction[2])

\* PaceCalcResponse(...): the triplet, formatted for humans
PaceCalcResponse(distance, time_seconds, pace_seconds_per_unit) ==
    [distance |-> Round2(distance),
     time |-> format_time_hhmmss(time_seconds).value,
     pace |-> format_pace_mmss(pace_seconds_per_unit).value]

NoBody == [distance |-> 0, time |-> <<>>, pace |-> <<>>]

\* provided != 2 is false when two or three metrics are given
TwoOrMore(distance, time_seconds, pace_seconds_per_unit) ==
    LET given == <<distance, time_seconds, pace_seconds_per_unit>>
    IN  Cardinality({i \in 1..3 : given[i] # Nothing}) >= 2

\* provided != 2 is false
ExactlyTwo(distance, time_seconds, pace_seconds_per_unit) ==
    LET given == <<distance, time_seconds, pace_seconds_per_unit>>
    IN  Cardinality({i \in 1..3 : given[i] # Nothing}) = 2

\* pace_calc: the status and body GET /pace-calc answers with.  An exception
\* the handler does not turn into an HTTPException leaves as a 500.
pace_calc(distance, time, pace, unit) ==
    LET t == IF time = Nothing THEN [ok |-> TRUE, value |-> 0]
             ELSE parse_time_hhmmss(time[1])
        p == IF pace = Nothing THEN [ok |-> TRUE, value |-> 0]
             ELSE parse_pace_mmss(pace[1])
        time_seconds == IF time = Nothing THEN Nothing ELSE Some(t.value)
        pace_seconds_per_unit ==
            IF pace = Nothing THEN Nothing ELSE Some(p.value)
    IN  IF distance # Nothing /\ distance[1] <= 0
        THEN [status |-> 400, body |-> NoBody]
        ELSE IF ~t.ok \/ ~p.ok
        THEN [status |-> 400, body |-> NoBody]
        ELSE IF ~ExactlyTwo(distance, time_seconds, pace_seconds_per_unit)
        THEN [status |-> 400, body |-> NoBody]
        ELSE IF distance # Nothing /\ time_seconds # Nothing
        THEN LET computed == pace_from_distance_time(distance[1], t.value)
             IN  IF ~computed.ok THEN [status |-> 500, body |-> NoBody]
                 ELSE [status |-> 200,
                       body |-> PaceCalcResponse(<<distance[1], DistanceScale>>,
                                                 t.value, computed.value)]
        ELSE IF time_seconds # Nothing /\ pace_seconds_per_unit # Nothing
        THEN LET computed == distance_from_time_pace(t.value, p.value)
             IN  IF ~computed.ok THEN [status |-> 500, body |-> NoBody]
                 ELSE [status |-> 200,
                       body |-> PaceCalcResponse(computed.value, t.value,
                                                 p.value)]
        ELSE [status |-> 200,
              body |-> PaceCalcResponse(
                          <<distance[1], DistanceScale>>,
                          time_from_distance_pace(distance[1], p.value),
                          p.value)]

\* ------------------------------------------------------ specifications
Init ==
    /\ DB = <<>>
    /\ nextId = 1
    /\ last = [op |-> None, id |-> 0, status |-> 0]
    /\ provenance = {}
    /\ deleted = {}
    /\ TOKEN_STORE = <<>>
    /\ OAUTH_STATES = {}
    /\ issued = {}
    /\ now = 0
    /\ sync = [s \in SyncIds |-> IdleSync]
    /\ rows = {}
    /\ rowSeq = 0
    /\ last_insert_rowid = 0
    /\ svc = [t \in Threads |-> IdleCall]
    /\ refreshes = [c \in Calls |-> IdleRefresh]

\* The answers the code exchange can get: a token, a non-success status, or
\* a body that lacks a field.
Exchanges ==
    [ status : {200}, complete : {TRUE},
      token : UNION {TokenResponses(a) : a \in Athletes} ]
    \cup
    [ status : {200, 400}, complete : {FALSE},
      token : {t \in TokenResponses(1) : t.expires_at = now + 21600} ]

\* The runs API with single import, and the OAuth flow that connects athletes.
CreateRun ==
    \E run \in RunInBodies :
       create_run(run) /\ UNCHANGED <<authVars, syncVars, storeVars>>
GetRun ==
    \E run_id \in 1..MaxIds :
       get_run(run_id) /\ UNCHANGED <<authVars, syncVars, storeVars>>
UpdateRun ==
    \E run_id \in 1..MaxIds, run \in RunInBodies :
       update_run(run_id, run) /\ UNCHANGED <<authVars, syncVars, storeVars>>
DeleteRun ==
    \E run_id \in 1..MaxIds :
       delete_run(run_id) /\ UNCHANGED <<authVars, syncVars, storeVars>>
ImportRun ==
    \E payload \in {p \in ImportBodies : /\ p.run_type = "Easy Run"
                                          /\ p.activity_id \in {1, 3}} :
       create_run_from_strava(payload) /\ UNCHANGED <<syncVars, storeVars>>
Connect ==
    \E state \in 1..MaxStates :
       /\ connect(state)
       /\ UNCHANGED <<DB, nextId, provenance, deleted, syncVars, storeVars>>
OAuthCallback ==
    \E code \in {None, "code"}, state \in 0..MaxStates,
       error \in {None, "access_denied"}, cookie_state \in 0..MaxStates,
       exchange \in Exchanges :
       /\ oauth_callback(code, state, error, cookie_state, exchange)
       /\ UNCHANGED <<DB, nextId, provenance, deleted, syncVars, storeVars>>

\* An athlete connects: the state cookie round-trips and the exchange
\* answers with a long-lived token.
ConnectAthlete ==
    \E exchange \in {x \in Exchanges : x.status = 200 /\ x.complete
                                       /\ x.token.expires_at = now + 21600} :
       /\ oauth_callback("code", 1, None, 1, exchange)
       /\ UNCHANGED <<DB, nextId, provenance, deleted, syncVars, storeVars>>

\* The OAuth flow and the token cache, as the clock runs on.
GetToken ==
    \E athlete \in Athletes :
       /\ ensure_token(athlete)
       /\ UNCHANGED <<apiVars, syncVars, storeVars>>
\* time.time() moves on to a later instant
Tick ==
    \E t \in ClockInstants :
       /\ t > now
       /\ now' = t
       /\ UNCHANGED <<last, TOKEN_STORE, OAUTH_STATES, issued, refreshes,
                      apiVars, syncVars, storeVars>>

NextAuth ==
    \/ Connect
    \/ OAuthCallback
    \/ GetToken
    \/ Tick

SpecAuth == Init /\ [][NextAuth]_vars

\* Token refreshes as the event loop interleaves them: an athlete connects or
\* connects again, and _ensure_token calls wait for the upstream together.
Reconnect ==
    \E exchange \in {x \in Exchanges : x.status = 200 /\ x.complete} :
       /\ oauth_callback("code", 1, None, 1, exchange)
       /\ UNCHANGED <<apiVars, syncVars, storeVars>>
RefreshBegin ==
    \E c \in Calls, athlete \in Athletes :
       /\ ensure_token_begin(c, athlete)
       /\ UNCHANGED <<last, apiVars, syncVars, storeVars>>
RefreshEnd ==
    \E c \in Calls :
       \E answer \in RefreshAnswers(refreshes[c].athlete) :
          /\ ensure_token_end(c, answer)
          /\ UNCHANGED <<last, apiVars, syncVars, storeVars>>
RefreshReturn ==
    \E c \in Calls :
       /\ ensure_token_return(c)
       /\ UNCHANGED <<last, apiVars, syncVars, storeVars>>

NextRefresh ==
    \/ Reconnect
    \/ RefreshBegin
    \/ RefreshEnd
    \/ RefreshReturn
    \/ Tick

SpecRefresh == Init /\ [][NextRefresh]_vars

Next ==
    \/ CreateRun
    \/ GetRun
    \/ UpdateRun
    \/ DeleteRun
    \/ ImportRun
    \/ ConnectAthlete

Spec == Init /\ [][Next]_vars

\* Bulk sync: athletes connect, runs are entered by hand, and one sync call
\* at a time pages through what the upstream serves.
CreateLegacyRun ==
    \E run \in LegacyBodies :
       create_run(run) /\ UNCHANGED <<authVars, syncVars, storeVars>>
SyncStart ==
    \E athlete_id \in {0, 1}, after \in Afters, max_import \in 1..MaxImport,
       dry_run \in BOOLEAN :
       sync_start(1, athlete_id, after, max_import, dry_run) /\ UNCHANGED storeVars
SyncLoad == \E ok \in BOOLEAN : sync_load(1, ok) /\ UNCHANGED storeVars
SyncPage ==
    \E resp \in {"ok", "status", "raise"}, items \in Pages :
       sync_page(1, resp, items) /\ UNCHANGED storeVars
SyncItem == sync_item(1) /\ UNCHANGED storeVars
SyncReturn == sync_return(1) /\ UNCHANGED storeVars

\* Every way a run comes to be stored: entered or edited by hand, imported
\* one by one, or by a sync, from an upstream that also lists activities
\* without a distance or without moving time.
EnterRun ==
    \E run \in {b \in RunInBodies : b.distance = 3100} :
       create_run(run) /\ UNCHANGED <<authVars, syncVars, storeVars>>
EditRun ==
    \E run_id \in 1..MaxIds,
       run \in {b \in RunInBodies : b.distance # 3100} :
       update_run(run_id, run) /\ UNCHANGED <<authVars, syncVars, storeVars>>
ImportAnyRun ==
    \E payload \in {p \in ImportBodies : /\ p.run_type = "Easy Run"
                                          /\ p.athlete_id = 0
                                          /\ p.unit = "mi"} :
       create_run_from_strava(
          [payload EXCEPT !.activity_id = IF @ = 1 THEN 1
                                          ELSE IF @ = 2 THEN 5 ELSE 6])
       /\ UNCHANGED <<syncVars, storeVars>>
SyncStartImport ==
    sync_start(1, 0, None, MaxImport, FALSE) /\ UNCHANGED storeVars
SyncPageDegenerate ==
    \E items \in DegeneratePages :
       sync_page(1, "ok", items) /\ UNCHANGED storeVars

NextRuns ==
    \/ ConnectAthlete
    \/ EnterRun
    \/ EditRun
    \/ ImportAnyRun
    \/ SyncStartImport
    \/ SyncLoad
    \/ SyncPageDegenerate
    \/ SyncItem
    \/ SyncReturn

SpecRuns == Init /\ [][NextRuns]_vars

NextSync ==
    \/ ConnectAthlete
    \/ CreateLegacyRun
    \/ SyncStart
    \/ SyncLoad
    \/ SyncPage
    \/ SyncItem
    \/ SyncReturn

SpecSync == Init /\ [][NextSync]_vars

\* Two /sync calls of one athlete on the event loop: each runs from one
\* await to the next, and the other call runs in between.
SyncStartEither ==
    \E s \in SyncIds :
       sync_start(s, 0, None, 1, FALSE) /\ UNCHANGED storeVars
SyncLoadEither ==
    \E s \in SyncIds, ok \in BOOLEAN : sync_load(s, ok) /\ UNCHANGED storeVars
SyncPageEither ==
    \E s \in SyncIds, items \in {<<>>, <<1>>} :
       sync_page(s, "ok", items) /\ UNCHANGED storeVars
SyncItemEither == \E s \in SyncIds : sync_item(s) /\ UNCHANGED storeVars
SyncReturnEither == \E s \in SyncIds : sync_return(s) /\ UNCHANGED storeVars

NextOverlap ==
    \/ ConnectAthlete
    \/ SyncStartEither
    \/ SyncLoadEither
    \/ SyncPageEither
    \/ SyncItemEither
    \/ SyncReturnEither

SpecOverlap == Init /\ [][NextOverlap]_vars

\* A /sync call whose client may go away at any await.
ClientDisconnect == client_disconnect(1) /\ UNCHANGED storeVars

NextDisconnect ==
    \/ ConnectAthlete
    \/ SyncStartImport
    \/ SyncLoad
    \/ SyncPage
    \/ SyncItem
    \/ SyncReturn
    \/ ClientDisconnect

SpecDisconnect == Init /\ [][NextDisconnect]_vars

\* The SQLite run store, called from two threads.
SvcCreateInsert ==
    \E t \in Threads,
       payload \in {p \in RunCreates : p.title = "Run 1" /\ p.run_type = "Easy Run"} :
       svc_create_insert(t, payload) /\ UNCHANGED <<apiVars, last, authVars, syncVars>>
SvcCreateReturn ==
    \E t \in Threads : svc_create_return(t) /\ UNCHANGED <<apiVars, last, authVars, syncVars>>
SvcDelete ==
    \E t \in Threads, run_id \in 1..MaxRowId :
       svc_delete(t, run_id) /\ UNCHANGED <<apiVars, last, authVars, syncVars>>
SvcUpdateCheck ==
    \E t \in Threads, run_id \in 1..MaxRowId,
       payload \in {p \in RunCreates : /\ p.title = "Run 2"
                                        /\ p.run_type = "Race"
                                        /\ p.started_at.off = 0
                                        /\ p.pace_s = NoInt} :
       svc_update_check(t, run_id, payload) /\ UNCHANGED <<apiVars, last, authVars, syncVars>>
SvcUpdateWrite ==
    \E t \in Threads : svc_update_write(t) /\ UNCHANGED <<apiVars, last, authVars, syncVars>>
SvcUpdateReturn ==
    \E t \in Threads : svc_update_return(t) /\ UNCHANGED <<apiVars, last, authVars, syncVars>>

NextStore ==
    \/ SvcCreateInsert
    \/ SvcCreateReturn
    \/ SvcDelete
    \/ SvcUpdateCheck
    \/ SvcUpdateWrite
    \/ SvcUpdateReturn

SpecStore == Init /\ [][NextStore]_vars

\* The pace calculator: a request or a call is drawn, and answered once.
\* The distances GET /pace-calc is sent, in thousandths of a unit.
CalcDistances ==
    {Nothing} \cup {Some(d) : d \in {0 - 500, 0, 2500, 5000}}
\* The time strings it is sent: "00:40:00", "40:00", "00:00", "00:00:00",
\* "7-30", "00:40:99" and "".
CalcTimes ==
    {Nothing} \cup
    {Some(s) : s \in {<<"0", "0", ":", "4", "0", ":", "0", "0">>,
                      <<"4", "0", ":", "0", "0">>,
                      <<"0", "0", ":", "0", "0">>,
                      <<"0", "0", ":", "0", "0", ":", "0", "0">>,
                      <<"7", "-", "3", "0">>,
                      <<"0", "0", ":", "4", "0", ":", "9", "9">>,
                      <<>>}}
\* The pace strings: "08:00", "00:00", "60:00", "07:99", "8m:00", "1:02:03".
CalcPaces ==
    {Nothing} \cup
    {Some(s) : s \in {<<"0", "8", ":", "0", "0">>,
                      <<"0", "0", ":", "0", "0">>,
                      <<"6", "0", ":", "0", "0">>,
                      <<"0", "7", ":", "9", "9">>,
                      <<"8", "m", ":", "0", "0">>,
                      <<"1", ":", "0", "2", ":", "0", "3">>}}

\* Distances a float holds exactly: the multiples of half a unit.
RoundTripDistances == {500 * k : k \in 1..MaxHalfUnits}
\* Whole seconds with the hours at either end of the range.
CodecSeconds ==
    {h * 3600 + m * 60 + s :
        h \in {0, 1, MaxHours - 2, MaxHours - 1, MaxHours},
        m \in {0, 1, 9, 10, 59}, s \in 0..59}

Pending(op, args) == [op |-> op, id |-> args, status |-> 0]

InitCalc ==
    /\ DB = <<>>
    /\ nextId = 1
    /\ last \in
         {Pending("pace_calc", [distance |-> d, time |-> t, pace |-> p,
                                unit |-> u]) :
             d \in CalcDistances, t \in CalcTimes, p \in CalcPaces,
             u \in Units}
         \cup
         {Pending("pace_then_time", [distance |-> d, total_seconds |-> t]) :
             d \in RoundTripDistances, t \in 0..MaxSeconds}
         \cup
         {Pending("format_then_parse", [seconds |-> s]) : s \in CodecSeconds}
    /\ provenance = {}
    /\ deleted = {}
    /\ TOKEN_STORE = <<>>
    /\ OAUTH_STATES = {}
    /\ issued = {}
    /\ now = 0
    /\ sync = [s \in SyncIds |-> IdleSync]
    /\ rows = {}
    /\ rowSeq = 0
    /\ last_insert_rowid = 0
    /\ svc = [t \in Threads |-> IdleCall]
    /\ refreshes = [c \in Calls |-> IdleRefresh]

\* GET /pace-calc is answered
PaceCalc ==
    /\ last.op = "pace_calc" /\ last.status = 0
    /\ LET r == pace_calc(last.id.distance, last.id.time, last.id.pace,
                          last.id.unit)
       IN  last' = [op |-> "pace_calc", id |-> last.id, status |-> r.status,
                    body |-> r.body]
    /\ UNCHANGED <<apiVars, authVars, syncVars, storeVars>>

\* distance and time give the pace, distance and that pace give a time
PaceThenTime ==
    /\ last.op = "pace_then_time" /\ last.status = 0
    /\ LET pace == pace_from_distance_time(last.id.distance,
                                           last.id.total_seconds).value
       IN  last' = [op |-> "pace_then_time", id |-> last.id, status |-> 200,
                    pace |-> pace,
                    time |-> time_from_distance_pace(last.id.distance, pace)]
    /\ UNCHANGED <<apiVars, authVars, syncVars, storeVars>>

\* seconds are formatted as a time and as a pace, and each string is parsed
FormatThenParse ==
    /\ last.op = "format_then_parse" /\ last.status = 0
    /\ LET time == format_time_hhmmss(last.id.seconds).value
           pace == format_pace_mmss(last.id.seconds).value
       IN  last' = [op |-> "format_then_parse", id |-> last.id,
                    status |-> 200,
                    time |-> time, time_parsed |-> parse_time_hhmmss(time),
                    pace |-> pace, pace_parsed |-> parse_pace_mmss(pace)]
    /\ UNCHANGED <<apiVars, authVars, syncVars, storeVars>>

NextCalc ==
    \/ PaceCalc
    \/ PaceThenTime
    \/ FormatThenParse

SpecCalc == InitCalc /\ [][NextCalc]_vars

\* ------------------------------------------------------------ bulk sync
\* The runs a sync call found stored when it started and that still are.
StoredSince(s) == {r \in sync[s].startRuns : r \in SeqToSet(DB)}

\* The activity the step appends to the imported list of call s.
JustImported(s) == sync'[s].imported[Len(sync'[s].imported)]

\* C1: an activity for which a run was stored when the sync call started,
\* whether a run with the activity's fingerprint (day, distance bucket,
\* duration bucket) or the run an earlier import made of it, is not imported
\* by that call.
C1_NoSecondImport ==
    [][\A s \in SyncIds :
         Len(sync'[s].imported) > Len(sync[s].imported) =>
            ~\E r \in StoredSince(s) :
                \/ RunKey(r) = ActivityKey(Activity(JustImported(s)))
                \/ <<r.id, JustImported(s)>> \in provenance]_vars

\* C2: no step of a sync call with dry_run = true changes the stored runs.
C2_DryRunCreatesNothing ==
    [][\A s \in SyncIds :
         ((sync[s].dry_run \/ sync'[s].dry_run) /\ sync'[s] # sync[s])
            => DB' = DB]_vars

\* A dry run came to its end with an activity it would import.
C2_Witness ==
    \E s \in SyncIds :
       /\ sync[s].pc = "done"
       /\ sync[s].dry_run
       /\ Len(sync[s].skipped) > 0
       /\ DB # <<>>

\* The dry run kept beside a call is the dry run: for a dry run the two agree.
ShadowIsTheDryRun ==
    \A s \in SyncIds :
       sync[s].dry_run =>
          /\ sync[s].shadow.skipped = sync[s].skipped
          /\ sync[s].pc \in {"page", "items", "done"} =>
                /\ sync[s].shadow.remaining = sync[s].remaining
                /\ sync[s].shadow.existing_keyset = sync[s].existing_keyset

\* C3: a sync call with dry_run = false whose imports all succeeded and whose
\* page fetches all answered 200 returns as imported the ids a dry run from
\* the same stored runs, over the same pages and with the same max_import
\* returns as would-import.
C3_DryRunListsTheImports ==
    \A s \in SyncIds :
       ( /\ sync[s].pc = "done"
         /\ ~sync[s].dry_run
         /\ sync[s].errors = <<>>
         /\ ~sync[s].pageFailed )
       => sync[s].imported = sync[s].shadow.skipped

\* The activities of the page the call stopped at that it did not come to
\* and that are still eligible: runs it has not tried whose fingerprint is
\* not in the key set.
EligibleLeft(rec) ==
    {rec.unprocessed[i] : i \in 1..Len(rec.unprocessed)}
       \cap {id \in ActivityIds :
               /\ IsRun(Activity(id))
               /\ ~AlreadyPresent(ActivityKey(Activity(id)), rec.existing_keyset)
               /\ \A i \in 1..Len(rec.errors) : rec.errors[i].activity_id # id}

InLists(rec) == SeqToSet(rec.imported) \cup SeqToSet(rec.already)
                   \cup SeqToSet(rec.skipped)

\* C4 as stated: a sync call with dry_run = false that stopped with eligible
\* activities left has imported exactly max_import activities, and none of
\* those left is in its imported, already-present or would-import list.
C4_ExactlyKImported ==
    \A s \in SyncIds :
       (sync[s].pc = "done" /\ ~sync[s].dry_run /\ EligibleLeft(sync[s]) # {})
       => /\ Len(sync[s].imported) = sync[s].max_import
          /\ EligibleLeft(sync[s]) \cap InLists(sync[s]) = {}

\* C4 amended: a sync call with dry_run = false never attempts more than
\* max_import imports: its imported and error lists together hold
\* max_import - remaining entries and remaining is never negative; when it
\* stops with eligible activities left the two lists hold exactly max_import
\* entries, and none of those left is in its imported, already-present or
\* would-import list.
C4_BudgetCapsImports ==
    \A s \in SyncIds :
       (sync[s].pc \in {"page", "items", "done"} /\ ~sync[s].dry_run)
       => /\ sync[s].remaining >= 0
          /\ Len(sync[s].imported) + Len(sync[s].errors)
                = sync[s].max_import - sync[s].remaining
          /\ sync[s].skipped = <<>>
          /\ EligibleLeft(sync[s]) # {} =>
                /\ sync[s].remaining = 0
                /\ EligibleLeft(sync[s]) \cap InLists(sync[s]) = {}

\* A call with max_import = k came to its end with k imports and an eligible
\* activity left.
C4_Witness ==
    \E s \in SyncIds :
       /\ sync[s].pc = "done"
       /\ ~sync[s].dry_run
       /\ EligibleLeft(sync[s]) # {}
       /\ sync[s].errors = <<>>
       /\ Len(sync[s].imported) = sync[s].max_import

\* C5 as stated: a sync call fetches at most max_import pages.
C5_FetchesWithinMaxImport ==
    \A s \in SyncIds : sync[s].fetches <= sync[s].max_import

\* C5 amended: a sync call attempts at most max_import imports (or lists at
\* most max_import would-imports) and fetches at most one page more than the
\* upstream served pages that hold activities: it stops at the first empty
\* page.
C5_StopsAtEndOfData ==
    \A s \in SyncIds :
       /\ sync[s].fetches <= sync[s].served + 1
       /\ Len(sync[s].imported) + Len(sync[s].skipped) + Len(sync[s].errors)
             <= sync[s].max_import

\* A call came to its end after more page fetches than max_import.
C5_Witness ==
    \E s \in SyncIds :
       /\ sync[s].pc = "done"
       /\ sync[s].fetches > sync[s].max_import
       /\ sync[s].fetches = sync[s].served + 1

\* C6: a sync call fails as a whole only before its loop starts, that is
\* before it fetched a page.
C6_FailsOnlyBeforeLoop ==
    \A s \in SyncIds : sync[s].pc = "failed" => sync[s].fetches = 0

\* ------------------------------------------------------- single import
\* C7: the run a single import answered 201 with carries source "strava" and
\* the decimal string of the activity id as source_ref.
C7_ImportRecordsProvenance ==
    (last.op = "create_run_from_strava" /\ last.status = 201) =>
       \A i \in 1..Len(DB) : \A a \in ActivityIds :
          (DB[i].id = last.id /\ <<last.id, a>> \in provenance) =>
             /\ "source" \in DOMAIN DB[i]
             /\ DB[i].source = "strava"
             /\ DB[i].source_ref = ToString(a)

\* ----------------------------------------------------------- RunsService
\* C8: list_runs returns every stored run once, the later start instant
\* first and, of two runs that start at the same instant, the higher id first.
C8_ListNewestFirst ==
    LET l == svc_list_runs
    IN  /\ Len(l) = Cardinality(rows)
        /\ {l[i].id : i \in 1..Len(l)} = RowIds
        /\ \A i, j \in 1..Len(l) :
              i < j =>
                 \/ Instant(l[i].started_at) > Instant(l[j].started_at)
                 \/ /\ Instant(l[i].started_at) = Instant(l[j].started_at)
                    /\ l[i].id > l[j].id

\* C9: update on an id that is not stored returns absent at once and leaves
\* the rows as they are; on a stored id its UPDATE puts the payload's column
\* values in the row of that id, adds and removes no id and leaves every
\* other row alone, and the call returns the run stored under that id.
C9_UpdateReplacesOrAbsent ==
    [][\A t \in Threads :
         /\ ( /\ svc[t].pc = "idle"
              /\ svc'[t] # svc[t]
              /\ svc'[t].op = "update"
              /\ svc'[t].run_id \notin RowIds )
            => /\ svc'[t].pc = "idle"
               /\ svc'[t].result = Absent
               /\ rows' = rows
         /\ (svc[t].pc = "checked" /\ svc'[t].pc = "written")
            => /\ {r.id : r \in rows'} = RowIds
               /\ \A r \in rows : r.id # svc[t].run_id => r \in rows'
               /\ svc[t].run_id \in RowIds
                     => RowOf(svc[t].run_id, svc[t].payload) \in rows'
         /\ (svc[t].pc = "written" /\ svc'[t].pc = "idle")
            => /\ rows' = rows
               /\ IF svc[t].run_id \in RowIds
                  THEN svc'[t].result # Absent
                       /\ svc'[t].result.id = svc[t].run_id
                  ELSE svc'[t].result = Absent]_vars

\* One update returned the run with the new title under its old id, another
\* returned absent.
C9_Witness ==
    \E t, u \in Threads :
       /\ svc[t].pc = "idle" /\ svc[t].op = "update"
       /\ svc[t].result # Absent
       /\ svc[t].result.id = svc[t].run_id
       /\ svc[t].result.title = "Run 2"
       /\ svc[u].pc = "idle" /\ svc[u].op = "update"
       /\ svc[u].result = Absent
       /\ rows # {}

\* --------------------------------------------------------- the runs API
\* C10: GET, PUT (with a valid body) and DELETE on an id that is not stored
\* answer 404 and leave the store as it is; DELETE on a stored id answers 204
\* and the id is not stored afterwards.
C10_MissingIdIs404 ==
    [][\A run_id \in 1..MaxIds :
         /\ ( /\ last'.op \in {"get_run", "update_run", "delete_run"}
              /\ last'.id = run_id
              /\ last'.status # 422
              /\ run_id \notin DBIds )
            => (last'.status = 404 /\ DB' = DB)
         /\ ( /\ last'.op = "delete_run"
              /\ last'.id = run_id
              /\ run_id \in DBIds )
            => (last'.status = 204 /\ run_id \notin DBIds')]_vars

\* A second DELETE of a deleted id answered 404.
C10_Witness ==
    /\ last.op = "delete_run"
    /\ last.status = 404
    /\ last.id \in deleted
    /\ DB # <<>>

\* ----------------------------------------------------- the pace calculator
\* The metrics a request to GET /pace-calc supplies.
SuppliedCount(args) ==
    Cardinality({f \in {"distance", "time", "pace"} : args[f] # Nothing})

\* C11: GET /pace-calc answers 400 whenever the request supplies zero, one or
\* three of distance, time and pace, and answers 200 only to a request that
\* supplies exactly two of them.
C11_ExactlyTwoMetrics ==
    (last.op = "pace_calc" /\ last.status # 0) =>
        /\ SuppliedCount(last.id) # 2 => last.status = 400
        /\ last.status = 200 => SuppliedCount(last.id) = 2

\* All three metrics, each of them well-formed, are answered with 400.
C11_Witness ==
    /\ last.op = "pace_calc"
    /\ last.status = 400
    /\ last.id.distance = Some(5000)
    /\ last.id.time = Some(<<"4", "0", ":", "0", "0">>)
    /\ last.id.pace = Some(<<"0", "8", ":", "0", "0">>)

\* Seconds between the time a round trip starts from and the time it gives.
RoundTripError ==
    IF last.time >= last.id.total_seconds
    THEN last.time - last.id.total_seconds
    ELSE last.id.total_seconds - last.time

\* C12 (as stated): for every distance > 0 and every time in whole seconds,
\* time_from_distance_pace(distance, pace_from_distance_time(distance, time))
\* is within 1 second of the time.
C12_RoundTripWithinOneSecond ==
    (last.op = "pace_then_time" /\ last.status = 200) => RoundTripError <= 1

\* C12 (amended): the round trip is within 1 second of the time for every
\* distance of at most 2 units.
C12_ShortRoundTripWithinOneSecond ==
    (/\ last.op = "pace_then_time"
     /\ last.status = 200
     /\ last.id.distance <= 2 * DistanceScale) => RoundTripError <= 1

\* A round trip over 1.5 units that comes back one second off.
C12_Witness ==
    /\ last.op = "pace_then_time"
    /\ last.status = 200
    /\ last.id.distance = 1500
    /\ last.id.total_seconds = 1
    /\ last.pace = 1
    /\ last.time = 2

\* C13: formatting a non-negative number of seconds and parsing the string
\* gives the seconds back, as a time (parse_time_hhmmss of format_time_hhmmss)
\* and as a pace (parse_pace_mmss of format_pace_mmss), also for a pace of an
\* hour or more and a time of a hundred hours or more.
C13_FormatThenParseIsIdentity ==
    (last.op = "format_then_parse" /\ last.status = 200) =>
        /\ last.time_parsed = [ok |-> TRUE, value |-> last.id.seconds]
        /\ last.pace_parsed = [ok |-> TRUE, value |-> last.id.seconds]

\* 100:01:09 is formatted as "100:01:09" and as "6001:09", and parsed back.
C13_Witness ==
    /\ last.op = "format_then_parse"
    /\ last.status = 200
    /\ last.id.seconds = 360069
    /\ last.time = <<"1", "0", "0", ":", "0", "1", ":", "0", "9">>
    /\ last.pace = <<"6", "0", "0", "1", ":", "0", "9">>
    /\ last.time_parsed.value = 360069
    /\ last.pace_parsed.value = 360069

\* C14: a division by zero is answered with 400 and nothing else: GET
\* /pace-calc with distance 0 and a time, and with pace "00:00" and a time,
\* both answer 400.
C14_ZeroDivisionIs400 ==
    (/\ last.op = "pace_calc"
     /\ last.status # 0
     /\ last.id.time # Nothing
     /\ \/ last.id.distance = Some(0) /\ last.id.pace = Nothing
        \/ /\ last.id.distance = Nothing
           /\ last.id.pace = Some(<<"0", "0", ":", "0", "0">>))
    => last.status = 400

\* -------------------------------------------------------------- tokens
\* C15: _ensure_token answers with the cached access token, posts nothing to
\* the upstream and leaves the record as it is when the record expires more
\* than 60 seconds from now; otherwise it posts a refresh and, when that is
\* answered with tokens, writes the new access token, refresh token and
\* expiry into the record and answers with the new access token.
C15_CachedOrRefreshed ==
    [][ (/\ last'.op = "_ensure_token"
         /\ now' = now
         /\ last'.id \in DOMAIN TOKEN_STORE) =>
        LET a == last'.id
            rec == TOKEN_STORE[a]
        IN  IF rec.expires_at - now > 60
            THEN /\ last'.status = 200
                 /\ last'.token = rec.access_token
                 /\ ~last'.refresh
                 /\ TOKEN_STORE' = TOKEN_STORE
            ELSE /\ last'.refresh
                 /\ last'.status = 200 =>
                      \E t \in TokenResponses(a) :
                         /\ last'.token = t.access_token
                         /\ TOKEN_STORE' =
                              [TOKEN_STORE EXCEPT
                                 ![a] = [access_token |-> t.access_token,
                                         refresh_token |-> t.refresh_token,
                                         expires_at |-> t.expires_at,
                                         athlete |-> rec.athlete]] ]_vars

\* A token 60 seconds from its expiry has just been refreshed: the record
\* holds the tokens issued now, and the call answered with the new one.
C15_Witness ==
    /\ last.op = "_ensure_token"
    /\ last.status = 200
    /\ last.refresh
    /\ now = 21540
    /\ last.id \in DOMAIN TOKEN_STORE
    /\ TOKEN_STORE[last.id].access_token = <<"at", last.id, 1, now>>
    /\ TOKEN_STORE[last.id].refresh_token = <<"rt", last.id, 1, now>>
    /\ TOKEN_STORE[last.id].expires_at = now + 21600
    /\ last.token = TOKEN_STORE[last.id].access_token

\* C16: an OAuth state token is used once: after a callback has accepted a
\* state that /connect handed out (which takes it out of _OAUTH_STATES), every
\* later callback that presents it, with or without the cookie, is answered
\* with 400 and stores no token.
C16_StateIsSingleUse ==
    [][ (/\ last'.op = "oauth_callback"
         /\ now' = now
         /\ last'.id \in issued
         /\ last'.id \notin OAUTH_STATES) =>
        (last'.status = 400 /\ TOKEN_STORE' = TOKEN_STORE) ]_vars

\* C17: after any creates and updates with valid payloads, every stored run
\* that has a pace_s has pace_s = round(duration_s / distance).
C17_PaceIsDerived ==
    \A r \in rows :
       r.pace_s # NoInt =>
          r.pace_s = RoundHalfEven(r.duration_s * 1000, r.distance)

\* ------------------------------------------------------- stored runs
\* C18: every stored run has a distance > 0 and a duration_s > 0, however it
\* came to be stored: by a create, an update, a single import or a sync; an
\* activity without distance or without moving time is never stored.
C18_StoredRunsArePositive ==
    \A i \in 1..Len(DB) : DB[i].distance > 0 /\ DB[i].duration_s > 0

\* A sync has been refused the import of the activity without moving time,
\* after it imported activity 1.
C18_Witness ==
    /\ sync[1].imported = <<1>>
    /\ \E i \in 1..Len(sync[1].errors) :
          sync[1].errors[i].activity_id = 6 /\ sync[1].errors[i].status = 500
    /\ Len(DB) = 1

\* ------------------------------------------ bulk sync: dedup and budget
\* The fingerprints of the activities a call has imported.
ImportedKeys(rec) ==
    {ActivityKey(Activity(rec.imported[i])) : i \in 1..Len(rec.imported)}

\* C19: within a sync call with dry_run = false, the fingerprint of every
\* activity imported is in existing_keyset from the import on, no two of the
\* activities imported have the same fingerprint, and every run the loop
\* comes to later with the fingerprint of an imported one is listed as
\* already present and creates no run.
C19_ImportedKeyDedups ==
    /\ [](\A s \in SyncIds :
            (sync[s].pc \in {"page", "items", "done"} /\ ~sync[s].dry_run) =>
               /\ ImportedKeys(sync[s]) \subseteq sync[s].existing_keyset
               /\ Cardinality(ImportedKeys(sync[s])) = Len(sync[s].imported))
    /\ [][ \A s \in SyncIds :
             (/\ sync[s].pc = "items"
              /\ sync'[s] # sync[s]
              /\ ~sync[s].dry_run
              /\ sync[s].items # <<>>
              /\ sync[s].remaining > 0
              /\ IsRun(Activity(Head(sync[s].items)))
              /\ ActivityKey(Activity(Head(sync[s].items)))
                    \in ImportedKeys(sync[s]))
             => /\ sync'[s].already =
                      Append(sync[s].already, Head(sync[s].items))
                /\ sync'[s].imported = sync[s].imported
                /\ DB' = DB ]_vars

\* A call that found no stored run imported activity 1 and then listed
\* activity 2, which has the same fingerprint, as already present.
C19_Witness ==
    \E s \in SyncIds :
       /\ sync[s].pc = "done"
       /\ ~sync[s].dry_run
       /\ sync[s].startRuns = {}
       /\ sync[s].imported = <<1>>
       /\ sync[s].already = <<2>>
       /\ Len(DB) = 1

\* C20: in a sync call the budget goes down by exactly one for each activity
\* taken for new (imported, would-import, or failed with an error entry) and
\* stays as it is for an already-present activity and for a non-run; the
\* imported, would-import and error lists so hold max_import - remaining
\* entries together, never more than max_import.
C20_BudgetCountsTheNew ==
    /\ [](\A s \in SyncIds :
            sync[s].pc \in {"page", "items", "done"} =>
               /\ Len(sync[s].imported) + Len(sync[s].skipped)
                     + Len(sync[s].errors)
                     = sync[s].max_import - sync[s].remaining
               /\ Len(sync[s].imported) + Len(sync[s].skipped)
                     + Len(sync[s].errors) <= sync[s].max_import)
    /\ [][ \A s \in SyncIds :
             (sync[s].pc = "items" /\ sync'[s].pc \in {"page", "items"}) =>
                LET new == (Len(sync'[s].imported) - Len(sync[s].imported))
                           + (Len(sync'[s].skipped) - Len(sync[s].skipped))
                           + (Len(sync'[s].errors) - Len(sync[s].errors))
                IN  /\ new \in {0, 1}
                    /\ sync'[s].remaining = sync[s].remaining - new
                    /\ Len(sync'[s].already) > Len(sync[s].already) =>
                          new = 0 ]_vars

\* A call with max_import = 2 has taken two activities for new, one imported
\* and one failed, and has no budget left.
C20_Witness ==
    \E s \in SyncIds :
       /\ sync[s].pc \in {"page", "items", "done"}
       /\ sync[s].max_import = 2
       /\ sync[s].remaining = 0
       /\ Len(sync[s].imported) = 1
       /\ Len(sync[s].errors) = 1

\* --------------------------------------- bulk sync: a page that fails
\* C21: when a page fetch is answered with a non-success status the sync call
\* ends as at the end of the data: it fetches no further page and imports
\* nothing more, and answers 200 with the imported, already-present,
\* would-import and error lists as they were before that page.
C21_FailedPageEndsTheSync ==
    /\ [](\A s \in SyncIds :
            sync[s].pageFailed => sync[s].pc = "done" /\ sync[s].status = 200)
    /\ [][ \A s \in SyncIds :
             /\ (sync'[s].pageFailed /\ ~sync[s].pageFailed) =>
                   /\ sync'[s].imported = sync[s].imported
                   /\ sync'[s].already = sync[s].already
                   /\ sync'[s].skipped = sync[s].skipped
                   /\ sync'[s].errors = sync[s].errors
                   /\ DB' = DB
             /\ sync[s].pageFailed =>
                   sync'[s] \in {sync[s], IdleSync} ]_vars

\* The second page of a call answered a non-success status after the first
\* page's activity was imported.
C21_Witness ==
    \E s \in SyncIds :
       /\ sync[s].pageFailed
       /\ sync[s].pc = "done"
       /\ sync[s].fetches = 2
       /\ sync[s].imported = <<1>>
       /\ sync[s].remaining > 0

\* ------------------------------------------------- tokens: failures
\* C22: _ensure_token fails with 401, and posts nothing to the upstream, when
\* the athlete has no token record, and fails with 502 when the refresh it
\* posts is answered with a non-success status; the token store is the same
\* after either failure.
C22_TokenFailuresLeaveTheStore ==
    [][ (last'.op = "_ensure_token" /\ now' = now) =>
        /\ last'.id \notin DOMAIN TOKEN_STORE =>
              /\ last'.status = 401
              /\ ~last'.refresh
              /\ TOKEN_STORE' = TOKEN_STORE
        /\ last'.status = 401 => last'.id \notin DOMAIN TOKEN_STORE
        /\ last'.status = 502 =>
              /\ last'.refresh
              /\ last'.id \in DOMAIN TOKEN_STORE
              /\ TOKEN_STORE[last'.id].expires_at - now <= 60
              /\ TOKEN_STORE' = TOKEN_STORE
        /\ last'.status \in {200, 401, 502} ]_vars

\* A refresh for athlete 1 was refused while athlete 2 had no record: the
\* store still holds the record of athlete 1 alone, 60 seconds from expiry.
C22_Witness ==
    /\ last.op = "_ensure_token"
    /\ last.status = 502
    /\ last.id = 1
    /\ DOMAIN TOKEN_STORE = {1}
    /\ TOKEN_STORE[1].expires_at - now = 60


\* C23: token refresh is not mutually exclusive. Two _ensure_token calls
\* for one athlete can wait for their refresh exchanges at the same time;
\* each one that gets a token and still holds the store's record writes the
\* access token, refresh token and expiry of its own answer and nothing
\* else, and returns that access token. So once both are complete the record
\* holds the three values of one of the two answers, the later one: a call
\* whose write nobody has overwritten finds its answer in the store.
RecordHolds(athlete, t) ==
    /\ athlete \in DOMAIN TOKEN_STORE
    /\ TOKEN_STORE[athlete].access_token = t.access_token
    /\ TOKEN_STORE[athlete].refresh_token = t.refresh_token
    /\ TOKEN_STORE[athlete].expires_at = t.expires_at
C23_ConcurrentRefreshesLastWriterWins ==
    /\ [](\A c \in Calls :
            (/\ refreshes[c].pc = "done"
             /\ refreshes[c].status = 200
             /\ refreshes[c].refresh
             /\ ~refreshes[c].overwritten)
            => /\ RecordHolds(refreshes[c].athlete, refreshes[c].response[1])
               /\ refreshes[c].token = refreshes[c].response[1].access_token)
    /\ [][ \A c \in Calls :
             (refreshes[c].pc = "refreshing" /\ refreshes'[c].pc = "done") =>
                /\ OAUTH_STATES' = OAUTH_STATES
                /\ DOMAIN TOKEN_STORE' = DOMAIN TOKEN_STORE
                /\ \A a \in DOMAIN TOKEN_STORE \ {refreshes[c].athlete} :
                      TOKEN_STORE'[a] = TOKEN_STORE[a]
                /\ refreshes'[c].status \in {200, 502}
                /\ refreshes'[c].status = 502 => TOKEN_STORE' = TOKEN_STORE
                /\ refreshes'[c].status = 200 =>
                      refreshes'[c].token =
                         refreshes'[c].response[1].access_token ]_vars
C23_Witness ==
    \E c, d \in Calls :
       /\ c # d
       /\ refreshes[c].pc = "done" /\ refreshes[d].pc = "done"
       /\ refreshes[c].athlete = 1 /\ refreshes[d].athlete = 1
       /\ refreshes[c].overlapped /\ refreshes[d].overlapped
       /\ refreshes[c].status = 200 /\ refreshes[d].status = 200
       /\ refreshes[c].response # refreshes[d].response
       /\ refreshes[d].overwritten /\ ~refreshes[c].overwritten
       /\ RecordHolds(1, refreshes[c].response[1])
       /\ ~RecordHolds(1, refreshes[d].response[1])


\* C24: two /sync calls that interleave can both import one activity, and
\* a single call at a time cannot: a call that no other call ran beside
\* imports no activity that a stored run was imported from already.
C24_DoubleImportNeedsInterleaving ==
    [][\A s \in SyncIds :
         (/\ Len(sync'[s].imported) > Len(sync[s].imported)
          /\ sync[s].alone)
         => ~\E p \in provenance : p[2] = JustImported(s)]_vars

\* Two calls in flight have each imported activity 1: two runs of it.
C24_BothImported ==
    /\ \A s \in SyncIds : sync[s].pc # "idle" /\ sync[s].loadOk
                          /\ 1 \in SeqToSet(sync[s].imported)
    /\ Cardinality({p \in provenance : p[2] = 1}) = 2


\* C25: once the client of a /sync call has gone away, the call fetches no
\* further page from the upstream and posts no further import: no step of
\* the call adds to its fetches, its imported list or its errors list, and
\* none stores a run.
C25_NoCallAfterDisconnect ==
    [][\A s \in SyncIds :
         (sync[s].disconnected /\ sync'[s].pc # "idle")
         => /\ sync'[s].fetches = sync[s].fetches
            /\ Len(sync'[s].imported) = Len(sync[s].imported)
            /\ Len(sync'[s].errors) = Len(sync[s].errors)
            /\ DB' = DB]_vars


\* C26: pace_from_distance_time and time_from_distance_pace round an exact
\* half away from zero: when seconds / distance is n + 1/2 the pace is n + 1,
\* and when distance * pace is n + 1/2 the time is n + 1.
C26_HalfRoundsAwayFromZero ==
    (last.op = "pace_then_time" /\ last.status = 200) =>
       LET twicePace == 2 * last.id.total_seconds * DistanceScale
           twiceTime == 2 * last.id.distance * last.pace
       IN  /\ (/\ twicePace % last.id.distance = 0
               /\ (twicePace \div last.id.distance) % 2 = 1)
              => last.pace = ((twicePace \div last.id.distance) + 1) \div 2
           /\ (/\ twiceTime % DistanceScale = 0
               /\ (twiceTime \div DistanceScale) % 2 = 1)
              => last.time = ((twiceTime \div DistanceScale) + 1) \div 2


\* C27: every import a /sync call for athlete A posts is performed for
\* athlete A: the POST /runs/from-strava that a step of the call gets an
\* answer from resolved A and asked for A's token.
C27_SyncImportsForItsAthlete ==
    [][\A s \in SyncIds :
         (/\ sync[s].pc = "items"
          /\ \/ Len(sync'[s].imported) > Len(sync[s].imported)
             \/ /\ Len(sync'[s].errors) > Len(sync[s].errors)
                /\ sync'[s].errors[Len(sync'[s].errors)].status # 0)
         => /\ last'.op = "create_run_from_strava"
            /\ last'.athlete = sync[s].athlete_id]_vars


\* C28: RunsService.create returns the Run it inserted, also when several
\* create calls run on the instance at once: the Run a call returns has the
\* rowid its own INSERT was given, never that of another caller's INSERT.
C28_CreateReturnsItsOwnRun ==
    [][\A t \in Threads :
         (svc[t].pc = "inserted" /\ svc'[t].pc = "idle")
         => /\ svc'[t].result # Absent
            /\ svc'[t].result.id = svc[t].rowid]_vars


\* The fields of a Run that its client supplies.
ClientFields(r) ==
    [ title |-> r.title, description |-> r.description,
      started_at |-> r.started_at, distance |-> r.distance, unit |-> r.unit,
      duration_s |-> r.duration_s, run_type |-> r.run_type,
      elevation_ft |-> r.elevation_ft, source |-> r.source,
      source_ref |-> r.source_ref ]

\* C29: the store round-trips a payload. The Run that create(p) reads back
\* for the row it inserted, and the Run that update(id, p) reads back for
\* the row it wrote, have the client fields of p: title, description, start
\* time, distance, unit, duration, run category, elevation, source and
\* source_ref.
C29_StoreRoundTrip ==
    [][\A t \in Threads :
         /\ (/\ svc[t].pc = "inserted" /\ svc'[t].pc = "idle"
             /\ last_insert_rowid = svc[t].rowid
             /\ svc[t].rowid \in RowIds
             /\ RowById(svc[t].rowid) = RowOf(svc[t].rowid, svc[t].payload))
            => ClientFields(svc'[t].result) = ClientFields(svc[t].payload)
         /\ (/\ svc[t].pc = "written" /\ svc'[t].pc = "idle"
             /\ svc[t].run_id \in RowIds
             /\ RowById(svc[t].run_id) = RowOf(svc[t].run_id, svc[t].payload))
            => ClientFields(svc'[t].result) = ClientFields(svc[t].payload)]_vars


\* C30: a token record is created or replaced only by an OAuth callback that
\* succeeds. A callback that is rejected, with 400 for an error parameter, a
\* missing code or an invalid or missing state, or with 502 for a failed
\* exchange or an incomplete token response, leaves the token store as it
\* was; the store gets a new athlete only from a callback answered with 302,
\* and a record changes otherwise only by the refresh of _ensure_token.
C30_OnlyAcceptedCallbackStores ==
    [][ /\ (last'.op = "oauth_callback" /\ last'.status # 302)
           => TOKEN_STORE' = TOKEN_STORE
        /\ DOMAIN TOKEN_STORE' # DOMAIN TOKEN_STORE
           => (last'.op = "oauth_callback" /\ last'.status = 302)
        /\ TOKEN_STORE' # TOKEN_STORE
           => \/ last'.op = "oauth_callback" /\ last'.status = 302
              \/ /\ last'.op = "_ensure_token"
                 /\ last'.status = 200 /\ last'.refresh ]_vars

\* A callback was refused after the exchange while an athlete is connected.
C30_Witness ==
    /\ last.op = "oauth_callback"
    /\ last.status = 502
    /\ DOMAIN TOKEN_STORE = {2}

====
